---- MODULE Spec2Model ----
(***************************************************************************)
(* A model of gsExprAssembler (src/src/gsAssembler/gsExprAssembler.h):     *)
(* space registration, mapper shifts (resetDimensions), sizing of the      *)
(* sparse system (initMatrix / initSystem / initVector), the element       *)
(* traversals (volume, boundary, interface) and the local-to-global        *)
(* scatter (_eval::push).                                                  *)
(*                                                                         *)
(* Conventions.                                                            *)
(*  - Indices are 0-based as in the C++ code; TLA+ sequences are 1-based,  *)
(*    so entry i of a C++ array is element i+1 of the sequence.            *)
(*  - A pointer into m_sdata is the position of the space in m_sdata;      *)
(*    0 is nullptr.                                                        *)
(*  - GISMO_ASSERT and Eigen's assertions are enabled (debug build): a     *)
(*    failed assertion throws, the call is abandoned where it stands and   *)
(*    err records the kind of error.                                       *)
(*  - Reals are integers here: T is modelled by Int, the real options bdA  *)
(*    and quA by integers and bdO in thousandths.                          *)
(*  - gsDofMapper, gsFeSpace::setup, the quadrature rule and the           *)
(*    expression evaluator are not part of the two source files; they are  *)
(*    modelled from their description in the specification.                *)
(***************************************************************************)
EXTENDS Integers, Sequences, FiniteSets, TLC

VARIABLES
    m_sdata,     \* std::list<gsFeSpaceData<T>>: the registered spaces
    m_vrow,      \* row (test) slot table: block id -> pointer into m_sdata
    m_vcol,      \* column (trial) slot table
    m_matrix,    \* gsSparseMatrix<T>
    m_rhs,       \* gsMatrix<T>
    m_options,   \* gsOptionList
    err,         \* outcome of the last call: "ok" or the error it raised
    call,        \* the last call made on the assembler and its arguments
    passes,      \* number of assembly calls made so far
    pc,          \* parallel volume pass: position of each worker
    wk           \* parallel volume pass: the accumulations each worker has left

vars == <<m_sdata, m_vrow, m_vcol, m_matrix, m_rhs, m_options, err, call,
          passes, pc, wk>>

(***************************************************************************)
(* Bounds of the model.                                                    *)
(***************************************************************************)
MaxBlocks == 2      \* the constructor is called with 1..MaxBlocks blocks
MaxSpaces == 2      \* at most this many spaces are ever registered
MaxDim    == 2      \* vector dimension of a space: 1..MaxDim
MaxPasses == 1      \* at most this many assembly calls are made
NPatches  == 2      \* multiBasis().nBases()
ElemsPerPatch == 2  \* elements of each patch's domain iterator
DomainDim == 2      \* multiBasis().domainDim()

Min(a, b) == IF a < b THEN a ELSE b

(***************************************************************************)
(* The integration elements (multiBasis): patches 0..NPatches-1, each with *)
(* elements 0..ElemsPerPatch-1.  Even patches carry a degree 1 basis, odd  *)
(* patches a degree 0 basis; element n of a degree p patch has the local   *)
(* functions n..n+p active.                                                *)
(***************************************************************************)
Patches == 0..(NPatches - 1)
Elems   == 0..(ElemsPerPatch - 1)
PatchDegree(k) == IF k % 2 = 0 THEN 1 ELSE 0
Actives(k, n) == [a \in 1..(PatchDegree(k) + 1) |-> n + a - 1]

(***************************************************************************)
(* Function sets offered for registration.  Each is a multi-patch basis;   *)
(* setup() classifies its scalar basis functions as free or eliminated.    *)
(***************************************************************************)
FunctionSets == {"fsA", "fsB", "fsV", "fsU"}

\* gsFunctionSet::targetDim(): fsV is vector valued
targetDim(fs) == IF fs = "fsV" THEN 2 ELSE 1

\* free and eliminated scalar functions of the set once its boundary
\* conditions are applied (fsB: every function is eliminated; fsU: a single
\* function, free)
FsFree(fs) ==
    CASE fs = "fsA" -> 2 [] fs = "fsB" -> 0 [] fs = "fsU" -> 1 [] OTHER -> 3
FsBnd(fs)  == CASE fs = "fsA" -> 1 [] fs = "fsB" -> 2 [] OTHER -> 0

(***************************************************************************)
(* gsFeSpaceData and its gsDofMapper.                                      *)
(***************************************************************************)
\* gsFeSpaceData(fs, dim, id): the mapper is default constructed (not
\* finalized, shift 0) and fixedDofs is empty
NewSpace(fs, dim, id) ==
    [fs |-> fs, dim |-> dim, id |-> id,
     fin |-> FALSE, free |-> 0, bnd |-> 0, shift |-> 0, fixedDofs |-> <<>>]

\* gsDofMapper accessors
isFinalized(s)  == s.fin
freeSize(s)     == s.free
boundarySize(s) == s.bnd
firstIndex(s)   == s.shift
is_free_index(s, gl)    == gl < s.free + s.shift
global_to_bindex(s, gl) == gl - s.shift - s.free

\* gsDofMapper::index(i, k, c): local function i of patch k, component c.
\* Per component the free indices come first, then the eliminated ones;
\* consecutive patches share one function (conforming interface).
ScalarSize(s) == FsFree(s.fs) + FsBnd(s.fs)
ScalarDof(s, i, k) == (i + k * ElemsPerPatch) % ScalarSize(s)
index(s, i, k, c) ==
    LET sd == ScalarDof(s, i, k)
    IN  IF sd < FsFree(s.fs)
        THEN s.shift + c * FsFree(s.fs) + sd
        ELSE s.shift + s.free + c * FsBnd(s.fs) + (sd - FsFree(s.fs))

\* the local functions of patch k
LocalFunctions(k) == 0..(ElemsPerPatch - 1 + PatchDegree(k))

\* gsDofMapper::coupledSize(): the free indices that functions of more than
\* one patch are matched to
coupledSize(s) ==
    s.dim * Cardinality(
       { d \in 0..(FsFree(s.fs) - 1) :
           \E k1 \in Patches, k2 \in Patches :
              /\ k1 # k2
              /\ \E i \in LocalFunctions(k1) : ScalarDof(s, i, k1) = d
              /\ \E i \in LocalFunctions(k2) : ScalarDof(s, i, k2) = d })

(***************************************************************************)
(* Outcomes of undefined behaviour.  Dereferencing a null slot inside an   *)
(* assertion either faults or reads garbage that fails the assertion.      *)
(***************************************************************************)
NullDerefOutcomes == {"memory-fault", "uninitialized-state"}

(***************************************************************************)
(* Options (defaultOptions and what setOptions may install).               *)
(***************************************************************************)
defaultOptions ==
    [quA |-> 1, quB |-> 1, bdA |-> 2, bdB |-> 1, bdO |-> 333]

OptionChoices ==
    { defaultOptions,
      [quA |-> 1, quB |-> 0, bdA |-> 1, bdB |-> 2, bdO |-> 500] }

(***************************************************************************)
(* Sparse matrix and right-hand side.                                      *)
(***************************************************************************)
\* gsSparseMatrix<T>(): 0 x 0, no entries.  coef maps the structurally
\* present (row, col) pairs to their values.
EmptyMatrix ==
    [rows |-> 0, cols |-> 0, coef |-> <<>>, reserve |-> 0, compressed |-> TRUE]

\* gsSparseMatrix<T>(r, c)
NewMatrix(r, c) == [EmptyMatrix EXCEPT !.rows = r, !.cols = c]

\* gsMatrix<T>(): 0 x 0; val holds the coefficients column by column
EmptyRhs == [rows |-> 0, cols |-> 0, val |-> <<>>]

\* m_rhs.setZero(r, c)
ZeroRhs(r, c) == [rows |-> r, cols |-> c, val |-> [t \in 1..(r * c) |-> 0]]

(***************************************************************************)
(* Queries.  Each returns [err, val].                                       *)
(***************************************************************************)
Ok(v)   == [err |-> "ok", val |-> v]
Fail(e) == [err |-> e, val |-> 0]

\* m_v.back()->mapper: firstIndex() + freeSize() of the last slot
LastDofs(sd, tab, ub) ==
    LET p == tab[Len(tab)]
    IN  IF p = 0 THEN Fail(ub)
        ELSE IF ~isFinalized(sd[p]) THEN Fail("uninitialized-state")
        ELSE Ok(firstIndex(sd[p]) + freeSize(sd[p]))

numDofs(sd, vcol, ub)     == LastDofs(sd, vcol, ub)
numTestDofs(sd, vrow, ub) == LastDofs(sd, vrow, ub)

RECURSIVE SumDims(_, _, _)
SumDims(sd, vrow, n) ==
    IF n = 0 THEN 0 ELSE SumDims(sd, vrow, n - 1) + sd[vrow[n]].dim

\* numBlocks(): the sum of the row spaces' dimensions
numBlocks(sd, vrow) == SumDims(sd, vrow, Len(vrow))

(***************************************************************************)
(* resetDimensions: chains the mappers' shifts, slot by slot.  Returns     *)
(* [err, sd]: the error raised (or "ok") and m_sdata as the call left it.  *)
(***************************************************************************)
\* a faulty chaining that adds to the mapper's present shift, for comparison
ShiftFromOwn(cur, prev) == firstIndex(cur) + prev.dim * freeSize(prev)

\* the argument of cur.mapper.setShift: prev is the space of the slot before
NewShift(cur, prev) == firstIndex(prev) + prev.dim * freeSize(prev)

\* one pass of the loop body, for slot i (0-based); m_vrow[i] read past the
\* end of the row table is a pointer to nothing
ResetSlot(sd, vrow, vcol, i, ub) ==
    LET c  == vcol[i + 1]
        cp == vcol[i]
        r  == vrow[i + 1]
        rp == vrow[i]
    IN  IF c = 0 \/ cp = 0 THEN [err |-> ub, sd |-> sd]
        ELSE IF ~isFinalized(sd[cp])
        THEN [err |-> "uninitialized-state", sd |-> sd]
        ELSE LET sd1 == [sd EXCEPT ![c].shift = NewShift(sd[c], sd[cp])]
             IN  IF i >= Len(vrow) THEN [err |-> ub, sd |-> sd1]
                 ELSE IF c = r THEN [err |-> "ok", sd |-> sd1]
                 ELSE IF r = 0 \/ rp = 0 THEN [err |-> ub, sd |-> sd1]
                 ELSE IF ~isFinalized(sd1[rp])
                 THEN [err |-> "uninitialized-state", sd |-> sd1]
                 ELSE [err |-> "ok",
                       sd  |-> [sd1 EXCEPT ![r].shift = NewShift(sd1[r], sd1[rp])]]

RECURSIVE ResetFrom(_, _, _, _, _)
ResetFrom(sd, vrow, vcol, i, ub) ==
    IF i >= Len(vcol) THEN [err |-> "ok", sd |-> sd]
    ELSE LET one == ResetSlot(sd, vrow, vcol, i, ub)
         IN  IF one.err # "ok" THEN one
             ELSE ResetFrom(one.sd, vrow, vcol, i + 1, ub)

resetDimensions(sd, vrow, vcol, ub) == ResetFrom(sd, vrow, vcol, 1, ub)

(***************************************************************************)
(* initMatrix's reservation estimate.                                      *)
(***************************************************************************)
\* multiBasis().maxDegree(i): the largest degree over the patches
maxDegree(i) ==
    CHOOSE d \in {PatchDegree(k) : k \in Patches} :
        \A k \in Patches : PatchDegree(k) <= d

RECURSIVE NzProduct(_, _)
NzProduct(opt, n) ==
    IF n = 0 THEN 1
    ELSE NzProduct(opt, n - 1) * (opt.bdA * maxDegree(n - 1) + opt.bdB)

\* numBlocks() * cast<T,index_t>(nz * (1.0 + bdO)): the cast truncates
reservePerColumn(opt, nb) ==
    nb * ((NzProduct(opt, DomainDim) * (1000 + opt.bdO)) \div 1000)

(***************************************************************************)
(* The sizing calls.  Each returns the assembler's changed members:        *)
(* [err, sd, mat, rhs].                                                    *)
(***************************************************************************)
InitMatrixOp(sd, vrow, vcol, mat, rhs, opt, ub) ==
    LET rd == resetDimensions(sd, vrow, vcol, ub)
        nr == numTestDofs(rd.sd, vrow, ub)
        nc == numDofs(rd.sd, vcol, ub)
        keep(e) == [err |-> e, sd |-> rd.sd, mat |-> mat, rhs |-> rhs]
    IN  IF rd.err # "ok" THEN keep(rd.err)
        ELSE IF nr.err # "ok" THEN keep(nr.err)
        ELSE IF nc.err # "ok" THEN keep(nc.err)
        ELSE [err |-> "ok", sd |-> rd.sd, rhs |-> rhs,
              mat |-> IF nr.val = 0 \/ nc.val = 0
                      THEN NewMatrix(nr.val, nc.val)
                      ELSE [NewMatrix(nr.val, nc.val) EXCEPT
                              !.reserve = reservePerColumn(opt, numBlocks(rd.sd, vrow)),
                              !.compressed = FALSE]]

InitSystemOp(sd, vrow, vcol, mat, rhs, opt, ub) ==
    LET im == InitMatrixOp(sd, vrow, vcol, mat, rhs, opt, ub)
        nc == numDofs(im.sd, vcol, ub)
    IN  IF im.err # "ok" THEN im
        ELSE IF nc.err # "ok" THEN [im EXCEPT !.err = nc.err]
        ELSE [im EXCEPT !.rhs = ZeroRhs(nc.val, 1)]

InitVectorOp(sd, vrow, vcol, mat, rhs, numRhs, ub) ==
    LET rd == resetDimensions(sd, vrow, vcol, ub)
        nc == numDofs(rd.sd, vcol, ub)
        keep(e) == [err |-> e, sd |-> rd.sd, mat |-> mat, rhs |-> rhs]
    IN  IF rd.err # "ok" THEN keep(rd.err)
        ELSE IF nc.err # "ok" THEN keep(nc.err)
        ELSE [keep("ok") EXCEPT !.rhs = ZeroRhs(nc.val, numRhs)]

(***************************************************************************)
(* Quadrature and expression evaluation (the providers' contracts).        *)
(***************************************************************************)
RECURSIVE Pow(_, _)
Pow(b, n) == IF n = 0 THEN 1 ELSE b * Pow(b, n - 1)

\* points per direction = quA * degree + quB; ndirs directions are
\* integrated (all of them in a volume pass, one less on a side)
NumPoints(opt, k, ndirs) == Pow(opt.quA * PatchDegree(k) + opt.quB, ndirs)

\* QuRule->mapTo(...): the weights of the mapped rule, all positive
mapTo(opt, k, ndirs) == [q \in 1..NumPoints(opt, k, ndirs) |-> 1 + ((q - 1) % 2)]

\* An expression: matrix or vector valued, its row space the test space of
\* block row, its column space the trial space of block col; pad extra rows
\* come out of a faulty evaluator.
MatrixExpr(r, c) == [kind |-> "matrix", row |-> r, col |-> c, pad |-> 0]
VectorExpr(r)    == [kind |-> "vector", row |-> r, col |-> r, pad |-> 0]
\* the vector valued expression whose value is 1 at every point
UnitExpr(r)      == [kind |-> "unit", row |-> r, col |-> r, pad |-> 0]
isMatrix(e) == e.kind = "matrix"

\* ee.eval(q) at entry (a, b), on element n: some entries are exactly zero
eval(e, n, q, a, b) ==
    IF e.kind = "unit" THEN 1
    ELSE IF (a + b + n) % 3 = 0 THEN 0 ELSE 1 + ((a + q) % 2)

\* *(w + q): the weight of point q; past the end of the rule it reads
\* whatever lies there
WeightAt(w, q) == IF q < Len(w) THEN w[q + 1] ELSE 1

RECURSIVE WeightedSum(_, _, _, _, _, _)
WeightedSum(e, n, w, a, b, q) ==
    IF q >= Len(w) THEN 0
    ELSE WeightAt(w, q) * eval(e, n, q, a, b) + WeightedSum(e, n, w, a, b, q + 1)

\* _eval::operator(): localMat = w[0]*eval(0) + sum_{q>=1} w[q]*eval(q)
LocalMat(e, n, w, nr, nc) ==
    [rows |-> nr, cols |-> nc,
     at   |-> [a \in 0..(nr - 1), b \in 0..(nc - 1) |->
                 WeightAt(w, 0) * eval(e, n, 0, a, b)
                 + WeightedSum(e, n, w, a, b, 1)]]

(***************************************************************************)
(* _eval::push.  A job is one call of push: the block localMat of one      *)
(* expression on one element, the row space v and column space u (as       *)
(* pointers into m_sdata), the actives and the patch index pi that         *)
(* resolves them.                                                          *)
(***************************************************************************)
\* (a check that lets a longer vector of fixed values pass, for comparison)
FixedPartAtLeast(u) == boundarySize(u) <= Len(u.fixedDofs)

\* colMap.boundarySize() == fixedDofs.size()
FixedPartValid(u) == boundarySize(u) = Len(u.fixedDofs)

\* the assertions at the head of push, in order; "ok" when all hold
PushCheck(sd, rhs, j) ==
    LET v == sd[j.v]
        u == sd[j.u]
    IN  IF ~isFinalized(v) THEN "uninitialized-state"
        ELSE IF j.isMatrix /\ ~isFinalized(u) THEN "uninitialized-state"
        ELSE IF ~j.isMatrix /\ Len(rhs.val) = 0 THEN "uninitialized-state"
        ELSE IF ~j.isMatrix THEN "ok"
        ELSE IF ~(Len(j.rowAct) * v.dim = j.lm.rows /\ Len(j.colAct) * u.dim = j.lm.cols)
        THEN "malformed-local-block"
        ELSE IF ~FixedPartValid(u) THEN "inconsistent-fixed-dofs"
        ELSE "ok"

\* Faulty variants of the accumulations, for comparison: a scatter that
\* writes zero entries, stores instead of adding, or eliminates with the
\* wrong sign.
SkipNothing(entry) == FALSE
MatStore(old, entry) == entry
RhsEliminateAdding(old, entry, fixed) == old + entry * fixed
RhsStore(old, entry) == entry

\* if ( 0 == localMat(rls+i,cls+j) ) continue;
SkipEntry(entry) == entry = 0

\* m_matrix.coeffRef(ii, jj) += entry
MatAdd(old, entry) == old + entry

\* m_rhs.at(ii) -= entry * fixedDofs.at(bindex)
RhsEliminate(old, entry, fixed) == old - entry * fixed

\* m_rhs.at(ii) += entry
RhsAdd(old, entry) == old + entry

NoOp == [kind |-> "none", ii |-> 0, jj |-> 0, entry |-> 0, fixed |-> 0]

\* the body of the matrix loops at (r, i, c, j), t = ((r*ni + i)*cd + c)*nj + j
MatrixOpAt(sd, j, t) ==
    LET v  == sd[j.v]
        u  == sd[j.u]
        ni == Len(j.rowAct)
        nj == Len(j.colAct)
        cd == u.dim
        jx == t % nj
        c  == (t \div nj) % cd
        i  == (t \div (nj * cd)) % ni
        r  == t \div (nj * cd * ni)
        ii == index(v, j.rowAct[i + 1], j.pi, r)
        entry == j.lm.at[r * ni + i, c * nj + jx]
        jj == index(u, j.colAct[jx + 1], j.pi, c)
    IN  IF ~is_free_index(v, ii) THEN NoOp
        ELSE IF SkipEntry(entry) THEN NoOp
        ELSE IF is_free_index(u, jj)
        THEN [kind |-> "mat", ii |-> ii, jj |-> jj, entry |-> entry, fixed |-> 0]
        ELSE [kind |-> "elim", ii |-> ii, jj |-> jj, entry |-> entry,
              fixed |-> u.fixedDofs[global_to_bindex(u, jj) + 1]]

\* the body of the vector loops at (r, i), t = r*ni + i
VectorOpAt(sd, j, t) ==
    LET v  == sd[j.v]
        ni == Len(j.rowAct)
        i  == t % ni
        r  == t \div ni
        ii == index(v, j.rowAct[i + 1], j.pi, r)
    IN  IF ~is_free_index(v, ii) THEN NoOp
        ELSE [kind |-> "add", ii |-> ii, jj |-> 0,
              entry |-> j.lm.at[r * ni + i, 0], fixed |-> 0]

\* the accumulations push performs, in the order of its loops
PushOps(sd, j) ==
    LET v == sd[j.v]
        u == sd[j.u]
        n == IF j.isMatrix
             THEN v.dim * Len(j.rowAct) * u.dim * Len(j.colAct)
             ELSE v.dim * Len(j.rowAct)
        all == [t \in 1..n |-> IF j.isMatrix THEN MatrixOpAt(sd, j, t - 1)
                                             ELSE VectorOpAt(sd, j, t - 1)]
    IN  SelectSeq(all, LAMBDA o : o.kind # "none")

\* Writing m_rhs.at(ii) outside the data of m_rhs is undefined: the write
\* faults, or lands outside m_rhs and the pass goes on.
RhsOverrunOutcomes == {"memory-fault", "silent"}

\* the value an accumulation finds at its target (0 where the matrix has
\* no entry yet, or where the target lies outside the data)
Target(mat, rhs, o) ==
    IF o.kind = "mat" THEN (IF <<o.ii, o.jj>> \in DOMAIN mat.coef
                            THEN mat.coef[<<o.ii, o.jj>>] ELSE 0)
    ELSE IF o.ii < Len(rhs.val) THEN rhs.val[o.ii + 1] ELSE 0

\* one accumulation onto the value old; returns [err, mat, rhs]
ApplyOpOn(mat, rhs, o, old, ub) ==
    IF o.kind = "mat"
    THEN IF o.ii >= mat.rows \/ o.jj >= mat.cols
         THEN [err |-> "eigen-assertion", mat |-> mat, rhs |-> rhs]
         ELSE LET at == <<o.ii, o.jj>>
              IN  [err |-> "ok", rhs |-> rhs,
                   mat |-> IF at \in DOMAIN mat.coef
                           THEN [mat EXCEPT !.coef[at] = MatAdd(old, o.entry)]
                           ELSE [mat EXCEPT !.coef = (at :> MatAdd(old, o.entry)) @@ @,
                                            !.compressed = FALSE]]
    ELSE IF o.ii >= Len(rhs.val)
         THEN [err |-> IF ub = "silent" THEN "ok" ELSE ub, mat |-> mat, rhs |-> rhs]
         ELSE [err |-> "ok", mat |-> mat,
               rhs |-> [rhs EXCEPT !.val[o.ii + 1] =
                          IF o.kind = "elim" THEN RhsEliminate(old, o.entry, o.fixed)
                                             ELSE RhsAdd(old, o.entry)]]

\* one accumulation of a sequential pass
ApplyOp(mat, rhs, o, ub) == ApplyOpOn(mat, rhs, o, Target(mat, rhs, o), ub)

RECURSIVE ApplyOps(_, _, _, _, _)
ApplyOps(mat, rhs, ops, t, ub) ==
    IF t > Len(ops) THEN [err |-> "ok", mat |-> mat, rhs |-> rhs]
    ELSE LET one == ApplyOp(mat, rhs, ops[t], ub)
         IN  IF one.err # "ok" THEN one
             ELSE ApplyOps(one.mat, one.rhs, ops, t + 1, ub)

\* push<isMatrix>(v, u, patchInd); returns [err, mat, rhs]
push(sd, mat, rhs, j, ub) ==
    LET chk == PushCheck(sd, rhs, j)
    IN  IF chk # "ok" THEN [err |-> chk, mat |-> mat, rhs |-> rhs]
        ELSE ApplyOps(mat, rhs, PushOps(sd, j), 1, ub)

(***************************************************************************)
(* The element traversals.  A visit is one element reached by a traversal: *)
(* patch k, element n, the patch index pi held by ee (m_patchInd) and the  *)
(* number ndirs of integrated directions.                                  *)
(***************************************************************************)
\* a faulty traversal that evaluates every element, for comparison
NeverSkip(npts) == FALSE

\* if (m_exprdata->points().cols()==0) continue;
ZeroPointSkip(npts) == npts = 0

\* volume pass: every element of every patch, ee.setPatch(patchInd)
VolumeVisits ==
    [t \in 1..(NPatches * ElemsPerPatch) |->
        [k |-> (t - 1) \div ElemsPerPatch, n |-> (t - 1) % ElemsPerPatch,
         pi |-> (t - 1) \div ElemsPerPatch, ndirs |-> DomainDim]]

\* volume pass when the integration elements are the single element of a
\* degree 0 basis alone: one patch (index 0) carrying that basis
UnitVisits ==
    LET k == CHOOSE p \in Patches : PatchDegree(p) = 0
    IN  <<[k |-> k, n |-> 0, pi |-> 0, ndirs |-> DomainDim]>>

\* makeDomainIterator(side): the element of the patch lying on the side
SideElem(side) == IF side = "west" THEN 0 ELSE ElemsPerPatch - 1

\* assemble(bcRefList, ...): ee keeps the patch index of its constructor (0)
BcRefVisits(BCs) ==
    [t \in 1..Len(BCs) |->
        [k |-> BCs[t].patch, n |-> SideElem(BCs[t].side), pi |-> 0,
         ndirs |-> DomainDim - 1]]

\* assembleLhsRhsBc_impl: ee.setPatch(it->patch())
BcVisits(BCs) ==
    [t \in 1..Len(BCs) |->
        [k |-> BCs[t].patch, n |-> SideElem(BCs[t].side), pi |-> BCs[t].patch,
         ndirs |-> DomainDim - 1]]

\* assembleInterface_impl: elements of the first side, ee.setPatch(patch1)
InterfaceVisits(iFaces) ==
    [t \in 1..Len(iFaces) |->
        [k |-> iFaces[t].patch1, n |-> SideElem(iFaces[t].side1),
         pi |-> iFaces[t].patch1, ndirs |-> DomainDim - 1]]

\* the call of push that expression e makes on visit vi
JobOf(sd, vrow, vcol, opt, vi, e) ==
    LET v   == vrow[e.row + 1]
        u   == IF isMatrix(e) THEN vcol[e.col + 1] ELSE v
        act == Actives(vi.k, vi.n)
    IN  [isMatrix |-> isMatrix(e), v |-> v, u |-> u, pi |-> vi.pi,
         rowAct |-> act, colAct |-> act, k |-> vi.k, n |-> vi.n,
         lm |-> LocalMat(e, vi.n, mapTo(opt, vi.k, vi.ndirs),
                         Len(act) * sd[v].dim + e.pad,
                         IF isMatrix(e) THEN Len(act) * sd[u].dim ELSE 1)]

\* the calls of push of a whole traversal, in order: for each visit with a
\* non-empty point set, each expression in turn
JobsOf(sd, vrow, vcol, opt, visits, exprs) ==
    LET ne  == Len(exprs)
        all == [t \in 1..(Len(visits) * ne) |->
                  LET vi == visits[((t - 1) \div ne) + 1]
                      e  == exprs[((t - 1) % ne) + 1]
                  IN  IF ZeroPointSkip(NumPoints(opt, vi.k, vi.ndirs))
                      THEN [isMatrix |-> FALSE, v |-> 0]
                      ELSE JobOf(sd, vrow, vcol, opt, vi, e)]
    IN  SelectSeq(all, LAMBDA j : j.v # 0)

RECURSIVE RunJobs(_, _, _, _, _, _)
RunJobs(sd, mat, rhs, jobs, t, ub) ==
    IF t > Len(jobs) THEN [err |-> "ok", mat |-> mat, rhs |-> rhs]
    ELSE LET one == push(sd, mat, rhs, jobs[t], ub)
         IN  IF one.err # "ok" THEN one
             ELSE RunJobs(sd, one.mat, one.rhs, jobs, t + 1, ub)

\* m_matrix.makeCompressed()
makeCompressed(mat) == [mat EXCEPT !.compressed = TRUE]

\* the loops of a traversal followed by makeCompressed
Traverse(sd, vrow, vcol, mat, rhs, opt, visits, exprs, ub) ==
    LET run == RunJobs(sd, mat, rhs, JobsOf(sd, vrow, vcol, opt, visits, exprs), 1, ub)
    IN  IF run.err # "ok" THEN run
        ELSE [run EXCEPT !.mat = makeCompressed(run.mat)]

\* GISMO_ASSERT(matrix().cols()==numDofs(), "System not initialized")
SystemInitialized(sd, vcol, mat, ub) ==
    LET nd == numDofs(sd, vcol, ub)
    IN  IF nd.err # "ok" THEN nd.err
        ELSE IF mat.cols # nd.val THEN "uninitialized-state"
        ELSE "ok"

\* assemble(args...) and assemble(BCs, args...): the check, then the loops
CheckedTraverse(sd, vrow, vcol, mat, rhs, opt, visits, exprs, ub, nub) ==
    LET chk == SystemInitialized(sd, vcol, mat, nub)
    IN  IF chk # "ok" THEN [err |-> chk, mat |-> mat, rhs |-> rhs]
        ELSE Traverse(sd, vrow, vcol, mat, rhs, opt, visits, exprs, ub)

(***************************************************************************)
(* State after construction: gsExprAssembler(_rBlocks, _cBlocks).          *)
(***************************************************************************)
NoCall == [op |-> "construct", arg |-> <<>>, n |-> 1]

\* records the call being made and its arguments; n counts consecutive
\* initMatrix calls
Called(op, arg) ==
    call' = [op |-> op, arg |-> arg,
             n  |-> IF op = "initMatrix" /\ call.op = op
                    THEN Min(call.n + 1, 2) ELSE 1]

Idle == <<>>

Constructed(_rBlocks, _cBlocks) ==
    /\ m_sdata = <<>>
    /\ m_vrow = [i \in 1.._rBlocks |-> 0]
    /\ m_vcol = [i \in 1.._cBlocks |-> 0]
    /\ m_matrix = EmptyMatrix
    /\ m_rhs = EmptyRhs
    /\ m_options = defaultOptions
    /\ err = "ok"
    /\ call = NoCall
    /\ passes = 0
    /\ pc = Idle
    /\ wk = Idle

\* (as many row blocks as column blocks)
Init == \E nb \in 1..MaxBlocks : Constructed(nb, nb)

NoPass == pc = Idle

(***************************************************************************)
(* Registration.  A registry is [sd, vrow, vcol].                          *)
(***************************************************************************)
\* (every registration accepted)
AnyRegistration(fs, id, vrow) == TRUE

\* the two assertions of getSpace; static_cast<size_t>(id) turns a negative
\* id into a value above every table size
GetSpaceValid(fs, id, vrow) ==
    1 = targetDim(fs) /\ id >= 0 /\ id < Len(vrow)

\* m_vcol[id] of getSpace is an unchecked write: past the end of the table
\* it faults, or lands outside the table and the call returns
SlotOverrunOutcomes == {"memory-fault", "silent"}

\* getSpace past its assertions (a slot past the end of m_vcol is not part
\* of the table, which is left as it was)
GetSpaceReg(reg, fs, dim, id) ==
    [sd   |-> Append(reg.sd, NewSpace(fs, dim, id)),
     vrow |-> [reg.vrow EXCEPT ![id + 1] = Len(reg.sd) + 1],
     vcol |-> [reg.vcol EXCEPT ![id + 1] = Len(reg.sd) + 1]]

\* (a registration of both slots under the block id of u)
TrialAndTestReg(reg, u, fs, dim) ==
    GetSpaceReg(reg, fs, IF dim = -1 THEN reg.sd[u].dim ELSE dim, reg.sd[u].id)

\* getTestSpace: u is the handle of a registered space; dim = -1 takes u's
GetTestSpaceReg(reg, u, fs, dim) ==
    LET d == IF dim = -1 THEN reg.sd[u].dim ELSE dim
        s == NewSpace(fs, d, reg.sd[u].id)
    IN  [sd   |-> Append(reg.sd, s),
         vrow |-> [reg.vrow EXCEPT ![s.id + 1] = Len(reg.sd) + 1],
         vcol |-> reg.vcol]

Registry == [sd |-> m_sdata, vrow |-> m_vrow, vcol |-> m_vcol]

Registered(reg) ==
    /\ m_sdata' = reg.sd
    /\ m_vrow' = reg.vrow
    /\ m_vcol' = reg.vcol

getSpace(fs, dim, id) ==
    /\ NoPass
    /\ Called("getSpace", <<fs, dim, id>>)
    /\ IF ~GetSpaceValid(fs, id, m_vrow)
       THEN /\ err' = "invalid-registration"
            /\ UNCHANGED <<m_sdata, m_vrow, m_vcol>>
       ELSE /\ Len(m_sdata) < MaxSpaces
            /\ Registered(GetSpaceReg(Registry, fs, dim, id))
            /\ \E ub \in SlotOverrunOutcomes :
                  err' = IF id < Len(m_vcol) \/ ub = "silent" THEN "ok" ELSE ub
    /\ UNCHANGED <<m_matrix, m_rhs, m_options, passes, pc, wk>>

getTestSpace(u, fs, dim) ==
    /\ NoPass
    /\ Len(m_sdata) < MaxSpaces
    /\ Called("getTestSpace", <<u, fs, dim>>)
    /\ Registered(GetTestSpaceReg(Registry, u, fs, dim))
    /\ err' = "ok"
    /\ UNCHANGED <<m_matrix, m_rhs, m_options, passes, pc, wk>>

\* gsFeSpace::setup: builds and finalizes the mapper of the space and sizes
\* its fixed values (value b + 1 for the b-th eliminated index)
SetupSpace(s) ==
    [s EXCEPT !.fin = TRUE, !.shift = 0,
              !.free = s.dim * FsFree(s.fs), !.bnd = s.dim * FsBnd(s.fs),
              !.fixedDofs = [b \in 1..(s.dim * FsBnd(s.fs)) |-> b + 1]]

\* (only spaces still held by a slot are set up: a replaced space is never
\* used again)
InSlot(p) ==
    \/ \E i \in DOMAIN m_vrow : m_vrow[i] = p
    \/ \E i \in DOMAIN m_vcol : m_vcol[i] = p

setup(p) ==
    /\ NoPass
    /\ InSlot(p)
    /\ ~m_sdata[p].fin
    /\ Called("setup", <<>>)
    /\ m_sdata' = [m_sdata EXCEPT ![p] = SetupSpace(m_sdata[p])]
    /\ err' = "ok"
    /\ UNCHANGED <<m_vrow, m_vcol, m_matrix, m_rhs, m_options, passes, pc, wk>>

\* vectors a caller may hand to setFixedDofVector
FixedVectors == {<<>>, <<3>>, <<1, 2>>}

setFixedDofVector(vals, unk, ub) ==
    /\ NoPass
    /\ Called("setFixedDofVector", <<>>)
    /\ LET p == m_vcol[unk + 1]
       IN  IF p = 0
           THEN err' = ub /\ UNCHANGED m_sdata
           ELSE /\ m_sdata' = [m_sdata EXCEPT ![p].fixedDofs = vals]
                /\ err' = IF ~isFinalized(m_sdata[p]) THEN "uninitialized-state"
                          ELSE IF Len(vals) # boundarySize(m_sdata[p])
                          THEN "inconsistent-fixed-dofs"
                          ELSE "ok"
    /\ UNCHANGED <<m_vrow, m_vcol, m_matrix, m_rhs, m_options, passes, pc, wk>>

setOptions(opt) ==
    /\ NoPass
    /\ opt # m_options
    /\ Called("setOptions", <<>>)
    /\ m_options' = opt
    /\ err' = "ok"
    /\ UNCHANGED <<m_sdata, m_vrow, m_vcol, m_matrix, m_rhs, passes, pc, wk>>

(***************************************************************************)
(* Sizing.                                                                 *)
(***************************************************************************)
Sized(r) ==
    /\ m_sdata' = r.sd
    /\ m_matrix' = r.mat
    /\ m_rhs' = r.rhs
    /\ err' = r.err
    /\ UNCHANGED <<m_vrow, m_vcol, m_options, passes, pc, wk>>

initMatrix(ub) ==
    /\ NoPass
    /\ Called("initMatrix", <<>>)
    /\ Sized(InitMatrixOp(m_sdata, m_vrow, m_vcol, m_matrix, m_rhs, m_options, ub))

initSystem(ub) ==
    /\ NoPass
    /\ Called("initSystem", <<>>)
    /\ Sized(InitSystemOp(m_sdata, m_vrow, m_vcol, m_matrix, m_rhs, m_options, ub))

initVector(numRhs, ub) ==
    /\ NoPass
    /\ Called("initVector", <<>>)
    /\ Sized(InitVectorOp(m_sdata, m_vrow, m_vcol, m_matrix, m_rhs, numRhs, ub))

\* (an accessor that hands out a copy and keeps the matrix, for comparison)
giveMatrixCopy ==
    /\ NoPass
    /\ Called("giveMatrix", <<m_matrix>>)
    /\ err' = "ok"
    /\ UNCHANGED <<m_sdata, m_vrow, m_vcol, m_matrix, m_rhs, m_options,
                   passes, pc, wk>>

\* giveMatrix(): the matrix is swapped with a new one and returned; the
\* value handed to the caller is recorded as the argument of the call
giveMatrix ==
    /\ NoPass
    /\ Called("giveMatrix", <<m_matrix>>)
    /\ m_matrix' = EmptyMatrix
    /\ err' = "ok"
    /\ UNCHANGED <<m_sdata, m_vrow, m_vcol, m_rhs, m_options, passes, pc, wk>>

\* give(x): x is moved from, its owner keeps an empty object
give(x, empty) == [out |-> x, left |-> empty]

\* matrix_into(out): out = give(m_matrix)
matrix_into ==
    /\ NoPass
    /\ Called("matrix_into", <<give(m_matrix, EmptyMatrix).out>>)
    /\ m_matrix' = give(m_matrix, EmptyMatrix).left
    /\ err' = "ok"
    /\ UNCHANGED <<m_sdata, m_vrow, m_vcol, m_rhs, m_options, passes, pc, wk>>

\* rhs_into(out): out = give(m_rhs)
rhs_into ==
    /\ NoPass
    /\ Called("rhs_into", <<give(m_rhs, EmptyRhs).out>>)
    /\ m_rhs' = give(m_rhs, EmptyRhs).left
    /\ err' = "ok"
    /\ UNCHANGED <<m_sdata, m_vrow, m_vcol, m_matrix, m_options, passes, pc, wk>>

\* matrix() and rhs(): a const reference to the member
accessor(op) ==
    /\ NoPass
    /\ Called(op, <<IF op = "matrix" THEN m_matrix ELSE m_rhs>>)
    /\ err' = "ok"
    /\ UNCHANGED <<m_sdata, m_vrow, m_vcol, m_matrix, m_rhs, m_options,
                   passes, pc, wk>>

(***************************************************************************)
(* Assembly, one call at a time (a build without OpenMP).                  *)
(***************************************************************************)
Assembled(r) ==
    /\ m_matrix' = r.mat
    /\ m_rhs' = r.rhs
    /\ err' = r.err
    /\ passes' = passes + 1
    /\ UNCHANGED <<m_sdata, m_vrow, m_vcol, m_options, pc, wk>>

CanAssemble == NoPass /\ passes < MaxPasses

\* assemble(args...)
assemble(exprs, ub, nub) ==
    /\ CanAssemble
    /\ Called("assemble", <<VolumeVisits, exprs>>)
    /\ Assembled(CheckedTraverse(m_sdata, m_vrow, m_vcol, m_matrix, m_rhs, m_options,
                                 VolumeVisits, exprs, ub, nub))

\* assemble(args...) after setIntegrationElements(mesh): visits are the
\* elements of the mesh
assembleOn(visits, exprs, ub, nub) ==
    /\ CanAssemble
    /\ Called("assemble", <<visits, exprs>>)
    /\ Assembled(CheckedTraverse(m_sdata, m_vrow, m_vcol, m_matrix, m_rhs, m_options,
                                 visits, exprs, ub, nub))

\* assemble(BCs, args...)
assembleBc(BCs, exprs, ub, nub) ==
    /\ CanAssemble
    /\ Called("assembleBc", <<BcRefVisits(BCs), exprs>>)
    /\ Assembled(CheckedTraverse(m_sdata, m_vrow, m_vcol, m_matrix, m_rhs, m_options,
                                 BcRefVisits(BCs), exprs, ub, nub))

\* assembleLhsRhsBc(exprLhs, exprRhs, BCs)
assembleLhsRhsBc(lhs, rhs, BCs, ub) ==
    /\ CanAssemble
    /\ Called("assembleLhsRhsBc", <<BcVisits(BCs), <<lhs, rhs>>>>)
    /\ IF lhs.row # rhs.row
       THEN Assembled([err |-> "inconsistent-lhs-rhs", mat |-> m_matrix, rhs |-> m_rhs])
       ELSE Assembled(Traverse(m_sdata, m_vrow, m_vcol, m_matrix, m_rhs, m_options,
                               BcVisits(BCs), <<lhs, rhs>>, ub))

\* assembleRhsBc(exprRhs, BCs): the left-hand expression is the null one
assembleRhsBc(rhs, BCs, ub) ==
    /\ CanAssemble
    /\ Called("assembleRhsBc", <<BcVisits(BCs), <<rhs>>>>)
    /\ Assembled(Traverse(m_sdata, m_vrow, m_vcol, m_matrix, m_rhs, m_options,
                          BcVisits(BCs), <<rhs>>, ub))

\* multiBasis().topology().interfaces(): neighbouring patches meet east-west
Interfaces ==
    [t \in 1..(NPatches - 1) |->
        [patch1 |-> t - 1, side1 |-> "east", patch2 |-> t, side2 |-> "west"]]

\* assembleInterface(exprInt)
assembleInterface(e, ub) ==
    /\ CanAssemble
    /\ Called("assembleInterface", <<InterfaceVisits(Interfaces), <<e>>>>)
    /\ Assembled(Traverse(m_sdata, m_vrow, m_vcol, m_matrix, m_rhs, m_options,
                          InterfaceVisits(Interfaces), <<e>>, ub))

\* assembleRhsInterface(exprInt, iFaces)
assembleRhsInterface(e, iFaces, ub) ==
    /\ CanAssemble
    /\ Called("assembleRhsInterface", <<InterfaceVisits(iFaces), <<e>>>>)
    /\ Assembled(Traverse(m_sdata, m_vrow, m_vcol, m_matrix, m_rhs, m_options,
                          InterfaceVisits(iFaces), <<e>>, ub))

(***************************************************************************)
(* The block view.                                                         *)
(***************************************************************************)
\* dim() * mapper.freeSize() of the space at p
BlockSize(sd, p) == sd[p].dim * freeSize(sd[p])

\* (a partition by registered block whatever the block count, for
\* comparison)
BlockDimsPerBlock(sd, vrow, vcol, ub) ==
    IF \E r \in DOMAIN vrow : vrow[r] = 0 THEN [err |-> ub]
    ELSE [err |-> "ok",
          rowSizes |-> [r \in DOMAIN vrow |-> BlockSize(sd, vrow[r])],
          colSizes |-> [c \in DOMAIN vcol |-> BlockSize(sd, vcol[c])]]

\* _blockDims(rowSizes, colSizes); the mapper of a single block system is
\* known to be finalized when this runs
BlockDims(sd, vrow, vcol, ub) ==
    IF Len(vcol) = 1 /\ Len(vrow) = 1
    THEN LET dm    == sd[vcol[Len(vcol)]]
             three == <<freeSize(dm) - coupledSize(dm), coupledSize(dm),
                        boundarySize(dm)>>
         IN  [err |-> "ok", rowSizes |-> three, colSizes |-> three]
    ELSE IF \E r \in DOMAIN vrow : vrow[r] = 0 THEN [err |-> ub]
    ELSE IF \E c \in DOMAIN vcol : vcol[c] = 0 THEN [err |-> ub]
    ELSE IF \/ \E r \in DOMAIN vrow : ~isFinalized(sd[vrow[r]])
            \/ \E c \in DOMAIN vcol : ~isFinalized(sd[vcol[c]])
    THEN [err |-> "uninitialized-state"]
    ELSE [err |-> "ok",
          rowSizes |-> [r \in DOMAIN vrow |-> BlockSize(sd, vrow[r])],
          colSizes |-> [c \in DOMAIN vcol |-> BlockSize(sd, vcol[c])]]

\* matrixBlockView(): the sizes handed to m_matrix.blockView are recorded as
\* the result of the call; the view itself reads the matrix only
matrixBlockView(ub) ==
    /\ NoPass
    /\ LET p  == m_vcol[Len(m_vcol)]
           bd == BlockDims(m_sdata, m_vrow, m_vcol, ub)
       IN  IF p = 0
           THEN Called("matrixBlockView", <<>>) /\ err' = ub
           ELSE IF ~isFinalized(m_sdata[p])
           THEN Called("matrixBlockView", <<>>) /\ err' = "uninitialized-state"
           ELSE IF bd.err # "ok"
           THEN Called("matrixBlockView", <<>>) /\ err' = bd.err
           ELSE /\ Called("matrixBlockView", <<bd.rowSizes, bd.colSizes>>)
                /\ err' = "ok"
    /\ UNCHANGED <<m_sdata, m_vrow, m_vcol, m_matrix, m_rhs, m_options,
                   passes, pc, wk>>

(***************************************************************************)
(* Spec: registration and sizing, every call in any order.                 *)
(***************************************************************************)
Dims == 1..MaxDim

\* the (function set, dimension) pairs callers register
SpaceChoices ==
    {<<"fsA", d>> : d \in Dims} \cup {<<"fsB", 1>>, <<"fsV", 1>>}

GetSpace == \E ch \in SpaceChoices, id \in (-1)..Len(m_vrow) :
               getSpace(ch[1], ch[2], id)
\* (u is a trial space in use)
GetTestSpace == \E u \in {m_vcol[i] : i \in DOMAIN m_vcol} \ {0},
                   ch \in SpaceChoices \ {<<"fsV", 1>>}, dflt \in BOOLEAN :
               getTestSpace(u, ch[1], IF dflt THEN -1 ELSE ch[2])
Setup == \E p \in 1..Len(m_sdata) : setup(p)
InitMatrix == \E ub \in NullDerefOutcomes : initMatrix(ub)
InitSystem == \E ub \in NullDerefOutcomes : initSystem(ub)
InitVector == \E ub \in NullDerefOutcomes : initVector(1, ub)
MatrixBlockView == \E ub \in NullDerefOutcomes : matrixBlockView(ub)

Next ==
    \/ GetSpace
    \/ GetTestSpace
    \/ Setup
    \/ InitMatrix
    \/ InitSystem
    \/ InitVector
    \/ MatrixBlockView

Spec == Init /\ [][Next]_vars

(***************************************************************************)
(* SpecBlocks: registration and sizing of an assembler constructed with    *)
(* any number of row blocks and any number of column blocks.               *)
(***************************************************************************)
InitBlocks == \E r \in 1..MaxBlocks, c \in 1..MaxBlocks : Constructed(r, c)

NextBlocks ==
    \/ GetSpace
    \/ GetTestSpace
    \/ Setup
    \/ InitMatrix

SpecBlocks == InitBlocks /\ [][NextBlocks]_vars

(***************************************************************************)
(* SpecAsm: sizing and assembly of a registered, set up assembler.         *)
(* The initial states are the assemblers that getSpace, getTestSpace,      *)
(* setup and setOptions build for one or two blocks.                       *)
(***************************************************************************)
NoTest == <<>>

\* how a block is registered: its trial space, and its distinct test space
\* if it has one
BlockChoices ==
    { [trial |-> <<"fsA", 1>>, test |-> NoTest],
      [trial |-> <<"fsB", 1>>, test |-> NoTest],
      [trial |-> <<"fsA", 2>>, test |-> NoTest],
      [trial |-> <<"fsA", 1>>, test |-> <<"fsV", 1>>],
      [trial |-> <<"fsB", 1>>, test |-> <<"fsA", 1>>] }

\* the blocks after the first are plain scalar or vector fsA blocks
LaterBlockChoices ==
    { bc \in BlockChoices : bc.trial[1] = "fsA" /\ bc.test = NoTest }

Scenarios ==
    UNION { { bcs \in [1..nb -> BlockChoices] :
                \A i \in 2..nb : bcs[i] \in LaterBlockChoices } : nb \in 1..MaxBlocks }

\* getSpace(trial, id), then getTestSpace(u, test) if the block has one
RegisterBlock(reg, bc, id) ==
    LET r1 == GetSpaceReg(reg, bc.trial[1], bc.trial[2], id)
    IN  IF bc.test = NoTest THEN r1
        ELSE GetTestSpaceReg(r1, Len(r1.sd), bc.test[1], -1)

RECURSIVE RegisterBlocks(_, _, _)
RegisterBlocks(reg, bcs, id) ==
    IF id >= Len(bcs) THEN reg
    ELSE RegisterBlocks(RegisterBlock(reg, bcs[id + 1], id), bcs, id + 1)

\* u.setup(...) on every registered space
SetupAll(reg) == [reg EXCEPT !.sd = [p \in 1..Len(reg.sd) |-> SetupSpace(reg.sd[p])]]

InitAsm ==
    \E bcs \in Scenarios : \E opt \in OptionChoices :
       LET nb  == Len(bcs)
           reg == SetupAll(RegisterBlocks(
                     [sd |-> <<>>, vrow |-> [i \in 1..nb |-> 0],
                      vcol |-> [i \in 1..nb |-> 0]], bcs, 0))
       IN  /\ m_sdata = reg.sd
           /\ m_vrow = reg.vrow
           /\ m_vcol = reg.vcol
           /\ m_matrix = EmptyMatrix
           /\ m_rhs = EmptyRhs
           /\ m_options = opt
           /\ err = "ok"
           /\ call = NoCall
           /\ passes = 0
           /\ pc = Idle
           /\ wk = Idle

\* the outcomes that can show: a null slot is only read where there is one,
\* m_rhs is only overrun where a free row index lies past its data
NullSlot == \E i \in DOMAIN m_vrow : m_vrow[i] = 0 \/ m_vcol[i] = 0
NullChoices == IF NullSlot THEN NullDerefOutcomes ELSE {"memory-fault"}
RhsShort ==
    \E i \in DOMAIN m_vrow :
       /\ m_vrow[i] # 0
       /\ firstIndex(m_sdata[m_vrow[i]]) + freeSize(m_sdata[m_vrow[i]]) > Len(m_rhs.val)
OverrunChoices == IF RhsShort THEN RhsOverrunOutcomes ELSE {"memory-fault"}

Blocks == 0..(Len(m_vrow) - 1)
LastBlock == Len(m_vrow) - 1

\* the expression lists handed to assemble
ExprLists ==
    {<<MatrixExpr(b, b)>> : b \in Blocks} \cup {<<VectorExpr(b)>> : b \in Blocks}
    \cup {<<MatrixExpr(0, 0), VectorExpr(0)>>, <<MatrixExpr(0, LastBlock)>>}

\* the boundary descriptors handed to the boundary passes
BcLists ==
    { <<[patch |-> 0, side |-> "west"]>>,
      <<[patch |-> NPatches - 1, side |-> "east"]>>,
      <<[patch |-> NPatches - 1, side |-> "east"], [patch |-> 0, side |-> "west"]>> }

\* the interface lists handed to assembleRhsInterface: the topology's, or
\* each interface from its second side followed by the topology's
Flipped ==
    [t \in 1..Len(Interfaces) |->
       [patch1 |-> Interfaces[t].patch2, side1 |-> Interfaces[t].side2,
        patch2 |-> Interfaces[t].patch1, side2 |-> Interfaces[t].side1]]
IfaceLists == { Interfaces, Flipped \o Interfaces }

Assemble == \E exprs \in ExprLists, ub \in OverrunChoices, nub \in NullChoices :
               assemble(exprs, ub, nub)
AssembleBc == \E BCs \in BcLists, exprs \in ExprLists, ub \in OverrunChoices,
                 nub \in NullChoices :
               assembleBc(BCs, exprs, ub, nub)
AssembleLhsRhsBc == \E b \in Blocks, rb \in Blocks, BCs \in BcLists, ub \in OverrunChoices :
               assembleLhsRhsBc(MatrixExpr(b, b), VectorExpr(rb), BCs, ub)
AssembleRhsBc == \E b \in Blocks, BCs \in BcLists, ub \in OverrunChoices :
               assembleRhsBc(VectorExpr(b), BCs, ub)
AssembleInterface == \E b \in Blocks, ub \in OverrunChoices :
               assembleInterface(MatrixExpr(b, b), ub)
AssembleRhsInterface == \E b \in Blocks, iFaces \in IfaceLists, ub \in OverrunChoices :
               assembleRhsInterface(VectorExpr(b), iFaces, ub)
GiveMatrix == giveMatrix

NextAsm ==
    \/ InitMatrix
    \/ InitSystem
    \/ InitVector
    \/ GiveMatrix
    \/ Assemble
    \/ AssembleBc
    \/ AssembleLhsRhsBc
    \/ AssembleRhsBc
    \/ AssembleInterface
    \/ AssembleRhsInterface

SpecAsm == InitAsm /\ [][NextAsm]_vars

(***************************************************************************)
(* SpecPar: the volume pass of a build with OpenMP.  The region forks nt   *)
(* workers; each walks every patch and takes the elements tid, tid + nt,   *)
(* ... of it.  The element data of a worker is its own; only m_matrix and  *)
(* m_rhs are shared, and each accumulation into them is one critical or    *)
(* atomic update.  An assertion that fails inside the region ends the      *)
(* pass.                                                                   *)
(***************************************************************************)
MaxThreads == 2     \* omp_get_num_threads(): 1..MaxThreads

\* the systems a pass is run on: one block, set up and sized by initSystem
InitPar ==
    \E bc \in BlockChoices : \E opt \in OptionChoices :
       LET reg == SetupAll(RegisterBlocks(
                     [sd |-> <<>>, vrow |-> <<0>>, vcol |-> <<0>>], <<bc>>, 0))
           sys == InitSystemOp(reg.sd, reg.vrow, reg.vcol, EmptyMatrix, EmptyRhs,
                               opt, "memory-fault")
       IN  /\ m_sdata = sys.sd
           /\ m_vrow = reg.vrow
           /\ m_vcol = reg.vcol
           /\ m_matrix = sys.mat
           /\ m_rhs = sys.rhs
           /\ m_options = opt
           /\ err = sys.err
           /\ call = [op |-> "initSystem", arg |-> <<>>, n |-> 1]
           /\ passes = 0
           /\ pc = Idle
           /\ wk = Idle

\* (a loop in which every worker walks every element, for comparison)
EveryVisit(tid, nt) == VolumeVisits

\* domIt->next(tid); domIt->good(); domIt->next(nt)
WorkerVisits(tid, nt) == SelectSeq(VolumeVisits, LAMBDA vi : vi.n % nt = tid)

\* the accumulations of a sequence of pushes, in order, up to the first
\* push whose assertions fail
RECURSIVE OpsOfJobs(_, _, _, _)
OpsOfJobs(sd, rhs, jobs, t) ==
    IF t > Len(jobs) THEN <<>>
    ELSE LET chk == PushCheck(sd, rhs, jobs[t])
         IN  IF chk # "ok" THEN <<[kind |-> "fail", err |-> chk]>>
             ELSE PushOps(sd, jobs[t]) \o OpsOfJobs(sd, rhs, jobs, t + 1)

\* what worker tid of nt has to do in the pass
WorkerOps(tid, nt, exprs) ==
    OpsOfJobs(m_sdata, m_rhs,
              JobsOf(m_sdata, m_vrow, m_vcol, m_options, WorkerVisits(tid, nt), exprs), 1)

\* where a worker stands once it has ops left to do
At(ops) == IF ops = <<>> THEN "barrier" ELSE "next"

\* the pass ends on an error
Abort(e) ==
    /\ err' = e
    /\ pc' = Idle
    /\ wk' = Idle
    /\ passes' = passes + 1

\* #pragma omp parallel: after the check, nt workers start
Fork(exprs, nt) ==
    /\ CanAssemble
    /\ Called("assemble", <<VolumeVisits, exprs, nt>>)
    /\ LET chk == SystemInitialized(m_sdata, m_vcol, m_matrix, "memory-fault")
       IN  IF chk # "ok" THEN Abort(chk)
           ELSE /\ pc' = [w \in 1..nt |-> At(WorkerOps(w - 1, nt, exprs))]
                /\ wk' = [entry |-> [mat |-> m_matrix, rhs |-> m_rhs],
                          todo  |-> [w \in 1..nt |-> WorkerOps(w - 1, nt, exprs)],
                          seen  |-> [w \in 1..nt |-> 0]]
                /\ err' = "ok"
                /\ UNCHANGED passes
    /\ UNCHANGED <<m_sdata, m_vrow, m_vcol, m_matrix, m_rhs, m_options>>

\* a racy update, for comparison: it adds onto the value the worker saw
\* when it reached the statement
StaleRead(now, seen) == seen

\* the value a critical or atomic update adds onto: the one there now
AtomicRead(now, seen) == now

\* worker w reaches its next accumulation (or the assertion that fails)
Arrive(w) ==
    /\ pc # Idle /\ w \in DOMAIN pc /\ pc[w] = "next"
    /\ LET o == Head(wk.todo[w])
       IN  IF o.kind = "fail" THEN Abort(o.err)
           ELSE /\ pc' = [pc EXCEPT ![w] = "update"]
                /\ wk' = [wk EXCEPT !.seen[w] = Target(m_matrix, m_rhs, o)]
                /\ UNCHANGED <<err, passes>>
    /\ UNCHANGED <<m_sdata, m_vrow, m_vcol, m_matrix, m_rhs, m_options, call>>

\* worker w performs the accumulation: #pragma omp critical (acc_m_matrix)
\* for the matrix, #pragma omp atomic for the right-hand side
Update(w, ub) ==
    /\ pc # Idle /\ w \in DOMAIN pc /\ pc[w] = "update"
    /\ LET o   == Head(wk.todo[w])
           old == AtomicRead(Target(m_matrix, m_rhs, o), wk.seen[w])
           one == ApplyOpOn(m_matrix, m_rhs, o, old, ub)
       IN  IF one.err # "ok"
           THEN Abort(one.err) /\ UNCHANGED <<m_matrix, m_rhs>>
           ELSE /\ m_matrix' = one.mat
                /\ m_rhs' = one.rhs
                /\ pc' = [pc EXCEPT ![w] = At(Tail(wk.todo[w]))]
                /\ wk' = [wk EXCEPT !.todo[w] = Tail(@), !.seen[w] = 0]
                /\ UNCHANGED <<err, passes>>
    /\ UNCHANGED <<m_sdata, m_vrow, m_vcol, m_options, call>>

\* the barrier that ends the region, then m_matrix.makeCompressed()
Join ==
    /\ pc # Idle
    /\ \A w \in DOMAIN pc : pc[w] = "barrier"
    /\ m_matrix' = makeCompressed(m_matrix)
    /\ pc' = Idle
    /\ wk' = Idle
    /\ err' = "ok"
    /\ passes' = passes + 1
    /\ UNCHANGED <<m_sdata, m_vrow, m_vcol, m_rhs, m_options, call>>

ParExprLists ==
    {<<MatrixExpr(0, 0)>>, <<VectorExpr(0)>>, <<MatrixExpr(0, 0), VectorExpr(0)>>}

ForkPass == \E exprs \in ParExprLists, nt \in 1..MaxThreads : Fork(exprs, nt)
WorkerArrives == \E w \in 1..MaxThreads : Arrive(w)
WorkerUpdates == \E w \in 1..MaxThreads, ub \in OverrunChoices : Update(w, ub)

NextPar ==
    \/ ForkPass
    \/ WorkerArrives
    \/ WorkerUpdates
    \/ Join

SpecPar == InitPar /\ [][NextPar]_vars

(***************************************************************************)
(* SpecOne: one block, registered, set up and sized by initSystem; then    *)
(* fixed values are replaced, the system is assembled, read and handed     *)
(* out.                                                                    *)
(***************************************************************************)
\* the (function set, dimension) of the block
OneChoices == {<<"fsA", 1>>, <<"fsA", 2>>, <<"fsU", 1>>}

InitOne ==
    \E ch \in OneChoices : \E opt \in OptionChoices :
       LET reg == SetupAll(GetSpaceReg([sd |-> <<>>, vrow |-> <<0>>, vcol |-> <<0>>],
                                      ch[1], ch[2], 0))
           sys == InitSystemOp(reg.sd, reg.vrow, reg.vcol, EmptyMatrix, EmptyRhs,
                               opt, "memory-fault")
       IN  /\ m_sdata = sys.sd
           /\ m_vrow = reg.vrow
           /\ m_vcol = reg.vcol
           /\ m_matrix = sys.mat
           /\ m_rhs = sys.rhs
           /\ m_options = opt
           /\ err = sys.err
           /\ call = [op |-> "initSystem", arg |-> <<>>, n |-> 1]
           /\ passes = 0
           /\ pc = Idle
           /\ wk = Idle

\* the expression lists handed to assemble: well formed blocks, blocks with
\* one row too many out of a faulty evaluator, and the constant 1
OneExprLists ==
    { <<MatrixExpr(0, 0)>>, <<VectorExpr(0)>>, <<UnitExpr(0)>>,
      <<VectorExpr(0), MatrixExpr(0, 0)>>,
      <<[MatrixExpr(0, 0) EXCEPT !.pad = 1]>>, <<[VectorExpr(0) EXCEPT !.pad = 1]>> }

NextOne ==
    \/ \E vals \in FixedVectors : setFixedDofVector(vals, 0, "memory-fault")
    \/ \E visits \in {VolumeVisits, UnitVisits}, exprs \in OneExprLists,
          ub \in OverrunChoices :
          assembleOn(visits, exprs, ub, "memory-fault")
    \/ InitSystem
    \/ giveMatrix
    \/ matrix_into
    \/ rhs_into
    \/ \E op \in {"matrix", "rhs"} : accessor(op)

SpecOne == InitOne /\ [][NextOne]_vars

(***************************************************************************)
(* Properties.                                                             *)
(***************************************************************************)
SizingOps == {"initMatrix", "initSystem", "initVector"}
PassOps == {"assemble", "assembleBc", "assembleLhsRhsBc", "assembleRhsBc",
            "assembleInterface", "assembleRhsInterface"}
CheckedOps == {"assemble", "assembleBc"}

\* a step that is one whole assembly call
Pass == passes' = passes + 1

\* the index range [shift, shift + dim * freeSize) of the space at p
BlockRange(p) ==
    { gl \in 0..(firstIndex(m_sdata[p]) + m_sdata[p].dim * freeSize(m_sdata[p]) - 1) :
        gl >= firstIndex(m_sdata[p]) }

RangesDisjoint(tab) ==
    \A i \in DOMAIN tab : \A j \in DOMAIN tab :
       i < j => BlockRange(tab[i]) \cap BlockRange(tab[j]) = {}

\* C1: after a sizing call has run resetDimensions, the index ranges
\* [shift, shift + dim*freeSize) of any two distinct blocks are disjoint, in
\* the column (trial) numbering and in the row (test) numbering, also when
\* only some blocks have a test space of their own.
C1_RangesDisjoint ==
    (call.op \in SizingOps /\ err = "ok")
       => RangesDisjoint(m_vcol) /\ RangesDisjoint(m_vrow)

\* total number of trial DOFs, whatever the state of the matrix
TrialDofs == numDofs(m_sdata, m_vcol, "memory-fault").val

\* the matrix holds no columns although the system has some: it was never
\* sized, or it was given away
MatrixUnsized == m_matrix = EmptyMatrix /\ TrialDofs > 0

\* C8: an assembly call of any kind that finds the matrix unsized (never
\* sized by initMatrix/initSystem, or moved out by giveMatrix) fails with
\* the uninitialized-state error and scatters nothing.
C8_UnsizedFails ==
    [][(Pass /\ MatrixUnsized)
          => /\ err' = "uninitialized-state"
             /\ m_matrix' = m_matrix
             /\ m_rhs' = m_rhs]_vars

\* C9: a second initMatrix directly after a successful one leaves every
\* mapper shift, the matrix dimensions and the reservation as they were.
C9_InitMatrixIdempotent ==
    [][(call'.op = "initMatrix" /\ call.op = "initMatrix" /\ err = "ok")
          => /\ err' = "ok"
             /\ m_sdata' = m_sdata
             /\ m_matrix'.rows = m_matrix.rows
             /\ m_matrix'.cols = m_matrix.cols
             /\ m_matrix'.reserve = m_matrix.reserve]_vars

\* initMatrix ran twice on at least two blocks, with a shift and a
\* reservation that are not zero
C9_Witness ==
    /\ call.op = "initMatrix" /\ call.n = 2 /\ err = "ok"
    /\ Len(m_vcol) >= 2
    /\ \E i \in DOMAIN m_vcol : firstIndex(m_sdata[m_vcol[i]]) > 0
    /\ m_matrix.reserve > 0

\* the visits of a list on which the quadrature rule has points
WithPoints(visits) ==
    SelectSeq(visits, LAMBDA vi : NumPoints(m_options, vi.k, vi.ndirs) # 0)

\* no registered space has a free DOF
NoFreeDofs == \A p \in 1..Len(m_sdata) : freeSize(m_sdata[p]) = 0

SystemEmpty ==
    /\ m_matrix.rows = 0 /\ m_matrix.cols = 0 /\ m_matrix.coef = <<>>
    /\ m_rhs.val = <<>>

\* C10: on spaces without free DOFs initSystem succeeds with an empty
\* system, and an assemble of matrix- or vector-valued expressions made
\* next, over elements that have quadrature points, succeeds too and
\* leaves the system empty.
C10_ZeroDofsAssemble ==
    [][(NoFreeDofs /\ call.op = "initSystem")
          => /\ err = "ok" /\ SystemEmpty
             /\ (call'.op = "assemble" /\ WithPoints(call'.arg[1]) # <<>>)
                   => err' = "ok" /\ SystemEmpty']_vars

(***************************************************************************)
(* The local entries of a pass, resolved one by one.                       *)
(***************************************************************************)
\* the pushes of the call being made, and of the call last made
PassJobs == JobsOf(m_sdata, m_vrow, m_vcol, m_options, call'.arg[1], call'.arg[2])
LastJobs == JobsOf(m_sdata, m_vrow, m_vcol, m_options, call.arg[1], call.arg[2])

\* entry (a, b) of the block of push t: its value m, the global row ii and
\* column jj it resolves to, whether they are free, and the fixed value of
\* an eliminated column
Resolve(sd, jobs, t, a, b) ==
    LET j  == jobs[t]
        v  == sd[j.v]
        u  == sd[j.u]
        ni == Len(j.rowAct)
        nj == Len(j.colAct)
        ii == index(v, j.rowAct[(a % ni) + 1], j.pi, a \div ni)
        jj == IF j.isMatrix THEN index(u, j.colAct[(b % nj) + 1], j.pi, b \div nj) ELSE 0
        cf == j.isMatrix /\ is_free_index(u, jj)
    IN  [t |-> t, a |-> a, b |-> b, isMatrix |-> j.isMatrix,
         m |-> j.lm.at[a, b], ii |-> ii, jj |-> jj,
         rowFree |-> is_free_index(v, ii), colFree |-> cf,
         fixed |-> IF j.isMatrix /\ ~cf
                   THEN u.fixedDofs[global_to_bindex(u, jj) + 1] ELSE 0]

\* every local entry of every push
Entries(sd, jobs) ==
    UNION { { Resolve(sd, jobs, t, a, b) : a \in 0..(jobs[t].lm.rows - 1),
                                           b \in 0..(jobs[t].lm.cols - 1) } :
            t \in 1..Len(jobs) }

FreeFree(E)  == { x \in E : x.isMatrix /\ x.rowFree /\ x.colFree }
FreeFixed(E) == { x \in E : x.isMatrix /\ x.rowFree /\ ~x.colFree /\ x.m # 0 }
FreeRows(E)  == { x \in E : ~x.isMatrix /\ x.rowFree }
FixedRows(E) == { x \in E : ~x.isMatrix /\ ~x.rowFree }

RECURSIVE SumOf(_, _)
SumOf(f, S) ==
    IF S = {} THEN 0
    ELSE LET x == CHOOSE y \in S : TRUE
         IN  f[x] + SumOf(f, S \ {x})

\* what the free/fixed entries take from rhs[ii], and what the vector
\* entries add to it
Eliminated(E, ii) ==
    LET S == { x \in FreeFixed(E) : x.ii = ii }
    IN  SumOf([x \in S |-> x.m * x.fixed], S)
Loaded(E, ii) ==
    LET S == { x \in FreeRows(E) : x.ii = ii }
    IN  SumOf([x \in S |-> x.m], S)
\* what the free/free entries add to the coefficient at <<ii, jj>>
Stiffness(E, at) ==
    LET S == { x \in FreeFree(E) : <<x.ii, x.jj>> = at }
    IN  SumOf([x \in S |-> x.m], S)

CoefAt(mat, at) == IF at \in DOMAIN mat.coef THEN mat.coef[at] ELSE 0
Positions(mat) == (0..(mat.rows - 1)) \X (0..(mat.cols - 1))
SameAt(at) ==
    /\ (at \in DOMAIN m_matrix'.coef) = (at \in DOMAIN m_matrix.coef)
    /\ CoefAt(m_matrix', at) = CoefAt(m_matrix, at)

HasMatrixExpr(exprs) == \E t \in DOMAIN exprs : isMatrix(exprs[t])
AllVectorExpr(exprs) == \A t \in DOMAIN exprs : ~isMatrix(exprs[t])

\* C2: in a completed pass every non-zero local entry m at (free row ii,
\* eliminated column with fixed value v) takes m*v from rhs[ii], once, and
\* the matrix coefficient at that (row, eliminated column) pair is neither
\* created nor modified.
C2_Elimination ==
    [][(Pass /\ err' = "ok" /\ HasMatrixExpr(call'.arg[2]))
          => LET E == Entries(m_sdata, PassJobs)
             IN  /\ Len(m_rhs'.val) = Len(m_rhs.val)
                 /\ \A ii \in 0..(Len(m_rhs.val) - 1) :
                       m_rhs'.val[ii + 1] =
                          m_rhs.val[ii + 1] - Eliminated(E, ii) + Loaded(E, ii)
                 /\ \A x \in FreeFixed(E) : SameAt(<<x.ii, x.jj>>)]_vars

\* a completed pass eliminated a column: its last pass held a non-zero
\* entry at (free row, eliminated column) and that rhs entry is below zero
C2_Witness ==
    /\ call.op \in PassOps /\ err = "ok"
    /\ \E x \in FreeFixed(Entries(m_sdata, LastJobs)) :
          /\ x.ii < Len(m_rhs.val)
          /\ m_rhs.val[x.ii + 1] < 0

\* C3: in a completed pass every coefficient (ii, jj) grows by the sum of
\* all local entries at (free row, free column) that resolved to (ii, jj):
\* entries accumulate, on what earlier elements and passes left there.
C3_Accumulation ==
    [][(Pass /\ err' = "ok" /\ HasMatrixExpr(call'.arg[2]))
          => LET E == Entries(m_sdata, PassJobs)
             IN  /\ m_matrix'.rows = m_matrix.rows /\ m_matrix'.cols = m_matrix.cols
                 /\ DOMAIN m_matrix'.coef \subseteq Positions(m_matrix)
                 /\ \A x \in FreeFree(E) :
                       x.m # 0 => <<x.ii, x.jj>> \in Positions(m_matrix)
                 /\ \A at \in Positions(m_matrix) :
                       CoefAt(m_matrix', at) = CoefAt(m_matrix, at) + Stiffness(E, at)]_vars

\* a completed pass in which two different non-zero local entries resolved
\* to one coefficient, which holds more than either of them
C3_Witness ==
    /\ call.op \in PassOps /\ err = "ok"
    /\ LET F == FreeFree(Entries(m_sdata, LastJobs))
       IN  \E x \in F : \E y \in F :
              /\ x # y
              /\ x.m # 0 /\ y.m # 0
              /\ x.ii = y.ii /\ x.jj = y.jj
              /\ CoefAt(m_matrix, <<x.ii, x.jj>>) > x.m
              /\ CoefAt(m_matrix, <<x.ii, x.jj>>) > y.m

\* C4: a pass makes a coefficient (ii, jj) structurally present only if a
\* non-zero local entry of it resolved to (ii, jj); zero local entries
\* create nothing.
C4_NoStructuralZeros ==
    [][(Pass /\ m_matrix'.coef # m_matrix.coef)
          => LET F == FreeFree(Entries(m_sdata, PassJobs))
             IN  \A at \in DOMAIN m_matrix'.coef \ DOMAIN m_matrix.coef :
                    \E x \in F : x.m # 0 /\ <<x.ii, x.jj>> = at]_vars

\* a completed pass held a zero local entry at a (free row, free column)
\* whose coefficient is structurally absent, next to coefficients it created
C4_Witness ==
    /\ call.op \in PassOps /\ err = "ok"
    /\ m_matrix.coef # <<>>
    /\ \E x \in FreeFree(Entries(m_sdata, LastJobs)) :
          /\ x.m = 0
          /\ <<x.ii, x.jj>> \in Positions(m_matrix)
          /\ <<x.ii, x.jj>> \notin DOMAIN m_matrix.coef

\* C5: in a completed pass of vector-valued expressions every local entry
\* whose row resolves to a free index ii is added to rhs[ii], entries on
\* eliminated rows change nothing, and the matrix keeps its coefficients.
C5_VectorScatter ==
    [][(Pass /\ err' = "ok" /\ AllVectorExpr(call'.arg[2]))
          => LET E == Entries(m_sdata, PassJobs)
             IN  /\ Len(m_rhs'.val) = Len(m_rhs.val)
                 /\ \A ii \in 0..(Len(m_rhs.val) - 1) :
                       m_rhs'.val[ii + 1] = m_rhs.val[ii + 1] + Loaded(E, ii)
                 /\ m_matrix'.coef = m_matrix.coef
                 /\ m_matrix'.rows = m_matrix.rows /\ m_matrix'.cols = m_matrix.cols]_vars

\* a completed vector pass loaded a free row and met an eliminated row
C5_Witness ==
    /\ call.op \in PassOps /\ err = "ok" /\ AllVectorExpr(call.arg[2])
    /\ LET E == Entries(m_sdata, LastJobs)
       IN  /\ \E x \in FreeRows(E) :
                 /\ x.ii < Len(m_rhs.val)
                 /\ x.m # 0
                 /\ m_rhs.val[x.ii + 1] > 0
           /\ FixedRows(E) # {}

\* what the call made by the step leaves behind when its traversal meets
\* only the visits of the list live
Outcome(live, ub, nub) ==
    IF call'.op \in CheckedOps
    THEN CheckedTraverse(m_sdata, m_vrow, m_vcol, m_matrix, m_rhs, m_options,
                         live, call'.arg[2], ub, nub)
    ELSE Traverse(m_sdata, m_vrow, m_vcol, m_matrix, m_rhs, m_options,
                  live, call'.arg[2], ub)

\* C7: in each kind of traversal the elements whose mapped rule has no
\* points change neither the matrix nor the right-hand side and raise no
\* error: the pass ends as it would without them, and a pass that meets
\* only such elements changes nothing.
C7_ZeroPointNoOp ==
    [][(Pass /\ err' # "inconsistent-lhs-rhs")
          => LET live == WithPoints(call'.arg[1])
             IN  /\ \E ub \in RhsOverrunOutcomes, nub \in NullDerefOutcomes :
                       LET out == Outcome(live, ub, nub)
                       IN  /\ err' = out.err
                           /\ m_matrix' = out.mat
                           /\ m_rhs' = out.rhs
                 /\ live = <<>>
                       => /\ m_matrix'.coef = m_matrix.coef
                          /\ m_rhs' = m_rhs
                          /\ \/ err' = "ok"
                             \/ /\ call'.op \in CheckedOps
                                /\ m_matrix.cols # TrialDofs]_vars

\* a pass completed that met an element without points and went on to an
\* element with points, which it scattered
C7_Witness ==
    /\ call.op \in PassOps /\ err = "ok"
    /\ \E t \in DOMAIN call.arg[1] : \E n \in DOMAIN call.arg[1] :
          /\ t < n
          /\ WithPoints(<<call.arg[1][t]>>) = <<>>
          /\ WithPoints(<<call.arg[1][n]>>) # <<>>
    /\ \/ m_matrix.coef # <<>>
       \/ \E i \in DOMAIN m_rhs.val : m_rhs.val[i] # 0

\* every order in which the elements of a list can be visited
Orders(visits) ==
    LET n == Len(visits)
    IN  { [t \in 1..n |-> visits[f[t]]] :
            f \in { g \in [1..n -> 1..n] : \A a, b \in 1..n : g[a] = g[b] => a = b } }

\* the barrier step that ends a parallel pass without error
Joined == pc # Idle /\ pc' = Idle /\ err' = "ok"

\* C6: however the accumulations of the workers of a parallel volume pass
\* interleave, the matrix and right-hand side at its end are those of a
\* sequential pass over the same elements, taken in any order, from the
\* system the pass started on: nothing is lost, nothing is applied twice.
C6_ParallelEqualsSequential ==
    [][Joined
          => \A order \in Orders(call.arg[1]) :
                LET seq == Traverse(m_sdata, m_vrow, m_vcol, wk.entry.mat, wk.entry.rhs,
                                    m_options, order, call.arg[2], "silent")
                IN  /\ seq.err = "ok"
                    /\ m_matrix' = seq.mat
                    /\ m_rhs' = seq.rhs]_vars

\* the accumulations of the last pass waiting for worker w at its start
LastOps(w) == WorkerOps(w - 1, call.arg[3], call.arg[2])

\* a pass of two or more workers ended in which two workers accumulated
\* into one matrix coefficient and two workers into one rhs entry
C6_Witness ==
    /\ call.op = "assemble" /\ pc = Idle /\ err = "ok" /\ passes > 0
    /\ call.arg[3] >= 2
    /\ \E a \in DOMAIN LastOps(1) : \E b \in DOMAIN LastOps(2) :
          /\ LastOps(1)[a].kind = "mat" /\ LastOps(2)[b].kind = "mat"
          /\ LastOps(1)[a].ii = LastOps(2)[b].ii
          /\ LastOps(1)[a].jj = LastOps(2)[b].jj
    /\ \E a \in DOMAIN LastOps(1) : \E b \in DOMAIN LastOps(2) :
          /\ LastOps(1)[a].kind \in {"elim", "add"}
          /\ LastOps(2)[b].kind \in {"elim", "add"}
          /\ LastOps(1)[a].ii = LastOps(2)[b].ii
          /\ LastOps(1)[a].ii < Len(m_rhs.val)

(***************************************************************************)
(* Registration (C16, C17).                                                *)
(***************************************************************************)
\* every slot of a table but that of block id is as it was
KeptBut(new, old, id) ==
    /\ Len(new) = Len(old)
    /\ \A i \in DOMAIN old : i # id + 1 => new[i] = old[i]

\* the space list grew by exactly one space, registered for (fs, dim, id)
OneNewSpace(fs, dim, id) ==
    /\ Len(m_sdata') = Len(m_sdata) + 1
    /\ SubSeq(m_sdata', 1, Len(m_sdata)) = m_sdata
    /\ m_sdata'[Len(m_sdata')].fs = fs
    /\ m_sdata'[Len(m_sdata')].dim = dim
    /\ m_sdata'[Len(m_sdata')].id = id
    /\ \A i \in DOMAIN m_vrow :
          m_vrow[i] # Len(m_sdata') /\ m_vcol[i] # Len(m_sdata')

C17_GetTestSpace ==
    [][call'.op = "getTestSpace"
          => LET u   == call'.arg[1]
                 fs  == call'.arg[2]
                 dim == call'.arg[3]
                 id  == m_sdata[u].id
             IN  /\ err' = "ok"
                 /\ OneNewSpace(fs, IF dim = -1 THEN m_sdata[u].dim ELSE dim, id)
                 /\ m_vrow'[id + 1] = Len(m_sdata')
                 /\ KeptBut(m_vrow', m_vrow, id)
                 /\ m_vcol' = m_vcol]_vars

\* a test space was registered without a dimension for a trial space of
\* dimension 2 on an assembler of two blocks
C17_Witness ==
    /\ call.op = "getTestSpace" /\ call.arg[3] = -1
    /\ Len(m_vrow) = 2
    /\ m_sdata[Len(m_sdata)].dim = 2
    /\ m_sdata[Len(m_sdata)].fs # m_sdata[call.arg[1]].fs
    /\ m_vrow[m_sdata[call.arg[1]].id + 1] = Len(m_sdata)
    /\ m_vcol[m_sdata[call.arg[1]].id + 1] = call.arg[1]

(***************************************************************************)
(* Sizing with unregistered blocks (C18).                                  *)
(***************************************************************************)
\* some row or column slot was never registered
SomeSlotNull ==
    \E i \in DOMAIN m_vrow : m_vrow[i] = 0 \/ m_vcol[i] = 0

\* C18: initMatrix, initSystem and initVector each fail with the
\* uninitialized-state error whenever some row or column slot is still
\* null, for any number of blocks and any subset of registered slots.
C18_NullSlotFails ==
    [][(call'.op \in SizingOps /\ SomeSlotNull)
          => err' = "uninitialized-state"]_vars

(***************************************************************************)
(* The reservation estimate (C20).                                         *)
(***************************************************************************)
\* the sum over the first n domain directions of bdA * maxDegree + bdB
RECURSIVE NzSum(_, _)
NzSum(opt, n) ==
    IF n = 0 THEN 0
    ELSE NzSum(opt, n - 1) + (opt.bdA * maxDegree(n - 1) + opt.bdB)

\* ceil(a / b) for a >= 0, b > 0
CeilDiv(a, b) == (a + b - 1) \div b

\* C20: for a system that is not zero-sized, the storage initMatrix
\* reserves per column is numBlocks * ceil(S * (1 + bdO)), S being the sum
\* over the domain directions of bdA * maxDegree + bdB, whatever the options
\* and degrees.
C20_ReservationSumCeil ==
    (/\ call.op \in {"initMatrix", "initSystem"} /\ err = "ok"
     /\ m_matrix.rows > 0 /\ m_matrix.cols > 0)
       => m_matrix.reserve =
             numBlocks(m_sdata, m_vrow)
               * CeilDiv(NzSum(m_options, DomainDim) * (1000 + m_options.bdO), 1000)

(***************************************************************************)
(* The block view (C19).                                                   *)
(***************************************************************************)
\* the slots whose mapper the view reads: the column slot of a single block
\* system, every slot otherwise
ViewSlots ==
    IF Len(m_vcol) = 1 /\ Len(m_vrow) = 1 THEN {m_vcol[1]}
    ELSE {m_vrow[i] : i \in DOMAIN m_vrow} \cup {m_vcol[i] : i \in DOMAIN m_vcol}

ViewFinalized == \A p \in ViewSlots : isFinalized(m_sdata[p])

\* C19: with every mapper finalized, matrixBlockView yields one row size
\* dim * freeSize per row block and one column size dim * freeSize per
\* column block when there is more than one block, and the three sizes
\* (freeSize - coupledSize, coupledSize, boundarySize) for rows and for
\* columns when there is exactly one row block and one column block; with a
\* mapper that is not finalized it fails with uninitialized-state; in every
\* case the matrix is left as it was.
C19_BlockView ==
    [][call'.op = "matrixBlockView"
          => /\ m_matrix' = m_matrix
             /\ (0 \notin ViewSlots /\ ~ViewFinalized)
                   => err' = "uninitialized-state"
             /\ (0 \notin ViewSlots /\ ViewFinalized)
                   => /\ err' = "ok"
                      /\ IF Len(m_vrow) = 1 /\ Len(m_vcol) = 1
                         THEN LET dm == m_sdata[m_vcol[1]]
                                  three == <<dm.free - coupledSize(dm),
                                             coupledSize(dm), dm.bnd>>
                              IN  call'.arg = <<three, three>>
                         ELSE /\ Len(call'.arg[1]) = Len(m_vrow)
                              /\ Len(call'.arg[2]) = Len(m_vcol)
                              /\ \A r \in DOMAIN m_vrow :
                                    call'.arg[1][r] = m_sdata[m_vrow[r]].dim
                                                       * m_sdata[m_vrow[r]].free
                              /\ \A c \in DOMAIN m_vcol :
                                    call'.arg[2][c] = m_sdata[m_vcol[c]].dim
                                                       * m_sdata[m_vcol[c]].free]_vars

\* a view was taken of a sized single block system whose mapper has
\* interior, coupled and eliminated indices
C19_Witness ==
    /\ call.op = "matrixBlockView" /\ err = "ok"
    /\ Len(m_vrow) = 1 /\ Len(m_vcol) = 1
    /\ \A i \in 1..3 : call.arg[1][i] > 0 /\ call.arg[2][i] > 0
    /\ m_matrix.rows > 0

(***************************************************************************)
(* Coupling across an interface (C13).                                     *)
(***************************************************************************)
\* the global indices the mapper of space s gives the functions of patch k
DofsOf(s, k) ==
    { index(s, i, k, c) : i \in LocalFunctions(k), c \in 0..(s.dim - 1) }

\* the matrix contributions among the entries E: non-zero entries at a free
\* row and a free column
Contributions(E) == { x \in FreeFree(E) : x.m # 0 }

\* C13: an interface pass of a matrix-valued expression over two patches
\* that share a conforming side produces, for the one element it evaluates
\* on the interface, matrix contributions whose global row and column
\* indices include DOFs of the first patch and DOFs of the second patch.
C13_InterfaceCouples ==
    [][(call'.op = "assembleInterface" /\ err' = "ok")
          => LET E  == Contributions(Entries(m_sdata, PassJobs))
                 e  == call'.arg[2][1]
                 v  == m_sdata[m_vrow[e.row + 1]]
                 u  == m_sdata[m_vcol[e.col + 1]]
                 p1 == Interfaces[1].patch1
                 p2 == Interfaces[1].patch2
                 touches(k) == \E x \in E : x.ii \in DofsOf(v, k) \/ x.jj \in DofsOf(u, k)
             IN  E # {} => touches(p1) /\ touches(p2)]_vars

(***************************************************************************)
(* The assertions of push on a sized one block system (C11, C12).          *)
(***************************************************************************)
\* the system is sized and the pass being made reaches push
Pushing ==
    /\ Pass /\ call'.op = "assemble"
    /\ ~MatrixUnsized /\ m_rhs.val # <<>>
    /\ PassJobs # <<>>

\* the expressions of the pass being made
PassExprs == call'.arg[2]

WellFormed == \A t \in DOMAIN PassExprs : PassExprs[t].pad = 0

\* the fixed values of the block's column space do not match its mapper
FixedMismatch ==
    Len(m_sdata[m_vcol[1]].fixedDofs) # boundarySize(m_sdata[m_vcol[1]])

\* the right-hand side changed by the vector loads of push t alone
OnlyLoadOf(t) ==
    LET E == Entries(m_sdata, SubSeq(PassJobs, t, t))
    IN  /\ Len(m_rhs'.val) = Len(m_rhs.val)
        /\ \A ii \in 0..(Len(m_rhs.val) - 1) :
              m_rhs'.val[ii + 1] = m_rhs.val[ii + 1] + Loaded(E, ii)

\* C11: scattering a matrix-valued block whose column space holds a vector
\* of fixed values of a length other than the mapper's boundarySize fails
\* with inconsistent-fixed-dofs, and the block changes no coefficient and
\* no right-hand-side entry: the matrix is as before the pass, and the
\* right-hand side holds at most the load of a vector block scattered
\* before it.
C11_FixedDofsChecked ==
    [][(/\ Pushing /\ WellFormed /\ FixedMismatch
        /\ \E t \in DOMAIN PassExprs : isMatrix(PassExprs[t]))
          => /\ err' = "inconsistent-fixed-dofs"
             /\ m_matrix' = m_matrix
             /\ IF isMatrix(PassExprs[1]) THEN m_rhs' = m_rhs
                ELSE OnlyLoadOf(1)]_vars

\* a pass of a vector and a matrix expression stopped at the matrix block
\* of its first element: the vector block before it was scattered, the
\* fixed values are too many for the mapper
C11_Witness ==
    /\ call.op = "assemble" /\ err = "inconsistent-fixed-dofs"
    /\ Len(call.arg[2]) = 2
    /\ Len(m_sdata[m_vcol[1]].fixedDofs) > boundarySize(m_sdata[m_vcol[1]])
    /\ boundarySize(m_sdata[m_vcol[1]]) > 0
    /\ \E i \in DOMAIN m_rhs.val : m_rhs.val[i] # 0
    /\ m_matrix.coef = <<>>

\* the pass being made hands push one block, of an extent that does not
\* match its actives
Malformed == Len(PassExprs) = 1 /\ PassExprs[1].pad # 0

\* C12: for matrix-valued and for vector-valued blocks alike, push fails
\* with malformed-local-block when the block's row count is not (row
\* actives * row dimension) or its column count is not (column actives *
\* column dimension), and no such block is scattered: the matrix and the
\* right-hand side are as before.
C12_ExtentsChecked ==
    [][(Pushing /\ Malformed)
          => /\ err' = "malformed-local-block"
             /\ m_matrix' = m_matrix
             /\ m_rhs' = m_rhs]_vars

(***************************************************************************)
(* The constant 1 on a single element of degree 0 (C14).                   *)
(***************************************************************************)
\* a block of one free function, just sized by initSystem, on which the
\* constant 1 is assembled over the single element of the degree 0 basis
UnitScenario ==
    /\ call.op = "initSystem" /\ err = "ok"
    /\ m_sdata[m_vrow[1]].fs = "fsU" /\ m_sdata[m_vrow[1]].dim = 1
    /\ freeSize(m_sdata[m_vrow[1]]) = 1 /\ boundarySize(m_sdata[m_vrow[1]]) = 0
    /\ Len(Actives(UnitVisits[1].k, UnitVisits[1].n)) = 1
    /\ m_options.quA = 1
    /\ call'.op = "assemble"
    /\ call'.arg = <<UnitVisits, <<UnitExpr(0)>>>>

\* C14 as stated: with quA = 1 and quB = 0, on a single patch with a single
\* element and a degree 0 basis with one active free function, assembling the
\* constant 1 vector-valued expression after initSystem yields the
\* right-hand side [1].
C14_UnitLoadIsOne ==
    [][(UnitScenario /\ m_options.quB = 0)
          => err' = "ok" /\ m_rhs'.val = <<1>>]_vars

\* C14, amended: in that scenario the rule has quA * 0 + quB points per
\* direction; with quB = 0 it has none, the element is skipped and the
\* right-hand side stays [0]; with quB = 1 the one point of weight 1
\* contributes once and the right-hand side is [1].
C14_UnitLoad ==
    [][UnitScenario
          => /\ err' = "ok"
             /\ m_options.quB = 0 => m_rhs'.val = <<0>>
             /\ m_options.quB = 1 => m_rhs'.val = <<1>>]_vars

\* the constant 1 was assembled with quA = 1, quB = 0 on the one-function
\* block and left the right-hand side at [0]
C14_Witness ==
    /\ call.op = "assemble" /\ err = "ok"
    /\ call.arg = <<UnitVisits, <<UnitExpr(0)>>>>
    /\ m_sdata[m_vrow[1]].fs = "fsU"
    /\ m_options.quA = 1 /\ m_options.quB = 0
    /\ m_rhs.val = <<0>>
    /\ m_matrix.cols = 1

(***************************************************************************)
(* Handing the system out (C15).                                           *)
(***************************************************************************)
\* C15: after matrix_into or giveMatrix the caller holds exactly the matrix
\* the assembler held and the assembler's matrix is empty; after rhs_into
\* the same holds for the right-hand side; the read accessors matrix() and
\* rhs() hand out the member and leave both unchanged.
C15_OwnershipMoves ==
    [][/\ call'.op \in {"matrix_into", "giveMatrix"}
            => /\ call'.arg = <<m_matrix>>
               /\ m_matrix' = EmptyMatrix
               /\ m_rhs' = m_rhs
       /\ call'.op = "rhs_into"
            => /\ call'.arg = <<m_rhs>>
               /\ m_rhs' = EmptyRhs
               /\ m_matrix' = m_matrix
       /\ call'.op \in {"matrix", "rhs"}
            => /\ call'.arg = <<IF call'.op = "matrix" THEN m_matrix ELSE m_rhs>>
               /\ m_matrix' = m_matrix
               /\ m_rhs' = m_rhs]_vars

\* an assembled matrix with coefficients was handed out by giveMatrix and
\* the assembler is left with an empty one and its right-hand side
C15_Witness ==
    /\ call.op = "giveMatrix"
    /\ call.arg[1].coef # <<>>
    /\ m_matrix = EmptyMatrix
    /\ \E i \in DOMAIN m_rhs.val : m_rhs.val[i] # 0

(***************************************************************************)
(* The patch index of push (C21).                                          *)
(***************************************************************************)
\* C21: in every traversal variant the patch index with which push
\* resolves local indices to global ones is the patch of the element being
\* evaluated: the loop patch in the volume pass, the descriptor's patch in
\* both boundary passes, the first patch in the interface pass, also for
\* descriptors of patches other than patch 0.
C21_PatchOfElement ==
    [][(Pass /\ err' = "ok")
          => \A t \in DOMAIN PassJobs : PassJobs[t].pi = PassJobs[t].k]_vars

(***************************************************************************)
(* Accesses to the right-hand side (C22).                                  *)
(***************************************************************************)
\* the local entries for which push reads and writes m_rhs.at(ii): the
\* eliminations of non-zero entries and the vector loads, at free rows
RhsAccesses(E) == FreeFixed(E) \cup FreeRows(E)

\* C22: in every state reached by registration, sizing and assembly, every
\* right-hand-side entry a pass of push reads or writes lies inside the
\* right-hand side (row index < row count), also when a test space has
\* another number of free DOFs than its trial space and when a matrix
\* expression with eliminated columns is assembled after initMatrix alone.
C22_RhsAccessInside ==
    [][(Pass /\ err' = "ok")
          => LET E == RhsAccesses(Entries(m_sdata, PassJobs))
             IN  \A x \in E : x.ii < m_rhs.rows]_vars

(***************************************************************************)
(* The block sizes against the matrix (C23).                               *)
(***************************************************************************)
RECURSIVE SumSeq(_)
SumSeq(q) == IF q = <<>> THEN 0 ELSE q[1] + SumSeq(Tail(q))

\* C23: after initMatrix the row sizes of the block view sum to the row
\* count of the matrix (numTestDofs) and the column sizes to its column
\* count (numDofs), for a single block with eliminated DOFs as for several
\* blocks with spaces of dimension greater than 1.
C23_BlockSizesSum ==
    [][(/\ call.op = "initMatrix" /\ err = "ok"
        /\ call'.op = "matrixBlockView" /\ err' = "ok")
          => /\ SumSeq(call'.arg[1]) = m_matrix.rows
             /\ SumSeq(call'.arg[2]) = m_matrix.cols]_vars

(***************************************************************************)
(* The division of a parallel pass among its workers (C24).                *)
(***************************************************************************)
\* the elements tid, tid + nt, tid + 2*nt, ... of a patch
Stride(tid, nt) == { n \in Elems : \E i \in 0..ElemsPerPatch : n = tid + i * nt }

\* the elements of every patch that fall to worker tid, in patch order
TakenBy(tid, nt) == SelectSeq(VolumeVisits, LAMBDA vi : vi.n \in Stride(tid, nt))

\* the step that forks the workers, and the number of workers forked
Forked == pc = Idle /\ pc' # Idle
Workers == 1..call'.arg[3]

\* C24: in a parallel volume pass with nt workers every element of every
\* patch is taken by exactly one worker, worker tid taking the elements
\* tid, tid + nt, tid + 2*nt, ... of each patch; each element's
\* contribution is scattered exactly once, so the pass ends on the system
\* of a sequential pass; and the matrix is compacted only once every worker
\* has finished all patches (no step of a running pass turns an uncompacted
\* matrix into a compacted one before that).
C24_OneWorkerPerElement ==
    [][/\ Forked
            => /\ \A t \in DOMAIN VolumeVisits :
                     Cardinality({ w \in Workers :
                        VolumeVisits[t].n \in Stride(w - 1, call'.arg[3]) }) = 1
               /\ \A w \in Workers :
                     wk'.todo[w] =
                        OpsOfJobs(m_sdata, m_rhs,
                                  JobsOf(m_sdata, m_vrow, m_vcol, m_options,
                                         TakenBy(w - 1, call'.arg[3]), call'.arg[2]), 1)
       /\ (pc # Idle /\ ~m_matrix.compressed /\ m_matrix'.compressed)
            => \A w \in DOMAIN pc : pc[w] = "barrier" /\ wk.todo[w] = <<>>
       /\ Joined
            => LET seq == Traverse(m_sdata, m_vrow, m_vcol, wk.entry.mat, wk.entry.rhs,
                                   m_options, VolumeVisits, call.arg[2], "silent")
               IN  /\ \A w \in DOMAIN pc : wk.todo[w] = <<>>
                   /\ m_matrix' = seq.mat
                   /\ m_rhs' = seq.rhs]_vars

\* a pass of two workers has ended: each had accumulations of its own to
\* make, and the matrix holds coefficients and is compacted
C24_Witness ==
    /\ call.op = "assemble" /\ Len(call.arg) = 3 /\ call.arg[3] = 2
    /\ pc = Idle /\ passes = 1 /\ err = "ok"
    /\ \A w \in 1..2 : LastOps(w) # <<>>
    /\ m_matrix.coef # <<>>
    /\ m_matrix.compressed

(***************************************************************************)
(* The slot indices used on the two tables (C25).                          *)
(***************************************************************************)
\* the iterations of resetDimensions' loop that get as far as m_vrow[i]:
\* the column slots up to i are all held
RowSlotRead(i) == i \in 1..(Len(m_vcol) - 1) /\ \A j \in 1..(i + 1) : m_vcol[j] # 0

\* the slot index a call of getSpace uses on both tables, once past its
\* assertions
SlotOfGetSpace ==
    IF call'.op = "getSpace" /\ GetSpaceValid(call'.arg[1], call'.arg[3], m_vrow)
    THEN {call'.arg[3]} ELSE {}

\* the slot index a call of getTestSpace uses on the row table
SlotOfGetTestSpace ==
    IF call'.op = "getTestSpace" THEN {m_sdata[call'.arg[1]].id} ELSE {}

\* the slot indices a call of resetDimensions uses on each table
ColSlotsOfReset ==
    IF call'.op = "initMatrix"
    THEN UNION {{i, i - 1} : i \in 1..(Len(m_vcol) - 1)} ELSE {}
RowSlotsOfReset ==
    IF call'.op = "initMatrix"
    THEN UNION {{i, i - 1} : i \in {j \in 1..(Len(m_vcol) - 1) : RowSlotRead(j)}}
    ELSE {}

\* C25: for an assembler constructed with any row block count R and column
\* block count C, every slot index used by getSpace, getTestSpace and
\* resetDimensions lies within the table it indexes: row-table indices are
\* below R and column-table indices are below C.
C25_SlotsInsideTables ==
    [][/\ \A i \in SlotOfGetSpace \cup SlotOfGetTestSpace \cup RowSlotsOfReset :
              i >= 0 /\ i < Len(m_vrow)
       /\ \A i \in SlotOfGetSpace \cup ColSlotsOfReset :
              i >= 0 /\ i < Len(m_vcol)]_vars

====
